---- MODULE Spec2Model ----
(***************************************************************************)
(* A model of ipma-weather-excel: update_weather.py (the xlsx container    *)
(* variant) and update_weather_google_sheet.py (the remote variant).       *)
(*                                                                         *)
(* Text is modelled as a sequence of one-character strings, so that        *)
(* formatting, escaping and parsing are computed character by character.   *)
(* A cell value is a record [t, n, s]:                                     *)
(*   t = "none"  : Python None                                             *)
(*   t = "bool"  : n = 1 (True) or 0 (False)                               *)
(*   t = "int"   : the integer n                                           *)
(*   t = "float" : the float n / 100 (n counts hundredths)                 *)
(*   t = "str"   : the text s                                              *)
(***************************************************************************)
EXTENDS Integers, Sequences, FiniteSets, TLC

VARIABLES
    file,               \* results.xlsx: [st, sheet]
    old_file,           \* results.xlsx as it was when the run started
    pc,                 \* position of the running program
    loc,                \* index in CONCELHOS of the next location to fetch
    rows,               \* main: rows fetched so far
    errors,             \* main: locations whose fetch failed
    run_date,           \* main: the run's date key
    data_rows,          \* main: the current block's rows
    existing_data_rows, \* main: history rows, header stripped, padded
    blocks,             \* main: result of _split_day_blocks
    ordered_dates,      \* main: ordered distinct date keys
    block_map,          \* main: rows kept per date key (aligned with ordered_dates)
    final_rows,         \* main: rows handed to _write_xlsx
    runs,               \* number of runs started
    sheet,              \* remote variant: the hosted sheet's values
    existing,           \* remote main: rows read
    today_rows,         \* remote main: rows fetched
    new_sheet,          \* remote main: rows handed to write_sheet
    arg,                \* input of a pure function under check
    res                 \* its result

vars == <<file, old_file, pc, loc, rows, errors, run_date, data_rows,
          existing_data_rows, blocks, ordered_dates, block_map, final_rows,
          runs, sheet, existing, today_rows, new_sheet, arg, res>>

main_locals == <<rows, errors, run_date, data_rows, existing_data_rows,
                 blocks, ordered_dates, block_map, final_rows>>
remote_vars == <<sheet, existing, today_rows, new_sheet>>
pure_vars == <<arg, res>>
container_vars == <<file, old_file, loc, rows, errors, run_date, data_rows,
                    existing_data_rows, blocks, ordered_dates, block_map,
                    final_rows>>

(***************************************************************************)
(* Bounds of the model.                                                    *)
(***************************************************************************)
MaxColumn == 16384
MaxLocations == 2
MaxRuns == 2
MaxHistRows == 3
MaxCodecCols == 2
MaxCodecRows == 1
MaxTenths == 30
MaxSplitRows == 4
MaxRemoteRuns == 3

(***************************************************************************)
(* Characters and text.                                                    *)
(***************************************************************************)
Alphabet == <<"A", "B", "C", "D", "E", "F", "G", "H", "I", "J", "K", "L", "M",
              "N", "O", "P", "Q", "R", "S", "T", "U", "V", "W", "X", "Y", "Z">>

Digits == <<"0", "1", "2", "3", "4", "5", "6", "7", "8", "9">>

Range(f) == {f[i] : i \in DOMAIN f}

IndexOf(seq, x) == CHOOSE i \in DOMAIN seq : seq[i] = x

RECURSIVE NatToChars(_)
\* str(n) for a natural number n
NatToChars(n) ==
    IF n < 10 THEN <<Digits[n + 1]>>
    ELSE NatToChars(n \div 10) \o <<Digits[(n % 10) + 1]>>

(***************************************************************************)
(* ColumnAddress: _column_letter and _column_index.                        *)
(***************************************************************************)
RECURSIVE ColumnLetterLoop(_, _)
ColumnLetterLoop(index, label) ==
    IF index = 0 THEN label
    ELSE ColumnLetterLoop((index - 1) \div 26,
                          <<Alphabet[((index - 1) % 26) + 1]>> \o label)

RECURSIVE ColumnLetterLoopNoDec(_, _)
\* faulty variant: divmod(index, 26) in place of divmod(index - 1, 26)
ColumnLetterLoopNoDec(index, label) ==
    IF index = 0 THEN label
    ELSE ColumnLetterLoopNoDec(index \div 26,
                               <<Alphabet[(index % 26) + 1]>> \o label)

ColumnLetterZeroBased(index) == ColumnLetterLoopNoDec(index, <<>>)

_column_letter(index) == ColumnLetterLoop(index, <<>>)

RECURSIVE ColumnIndexLoop(_, _)
ColumnIndexLoop(column_letters, index) ==
    IF column_letters = <<>> THEN index
    ELSE IF Head(column_letters) \notin Range(Alphabet) THEN index
    ELSE ColumnIndexLoop(Tail(column_letters),
                         index * 26 + IndexOf(Alphabet, Head(column_letters)))

RECURSIVE ColumnIndexLoopZeroBased(_, _)
\* faulty variant: ord(ch) - ord("A") in place of ord(ch) - ord("A") + 1
ColumnIndexLoopZeroBased(column_letters, index) ==
    IF column_letters = <<>> THEN index
    ELSE IF Head(column_letters) \notin Range(Alphabet) THEN index
    ELSE ColumnIndexLoopZeroBased(Tail(column_letters),
             index * 26 + IndexOf(Alphabet, Head(column_letters)) - 1)

ColumnIndexZeroBased(column_letters) == ColumnIndexLoopZeroBased(column_letters, 0)

_column_index(column_letters) == ColumnIndexLoop(column_letters, 0)

(***************************************************************************)
(* Cell values.                                                            *)
(***************************************************************************)
None == [t |-> "none", n |-> 0, s |-> <<>>]
StrCell(chars) == [t |-> "str", n |-> 0, s |-> chars]
IntCell(i) == [t |-> "int", n |-> i, s |-> <<>>]
\* the float h / 100
FloatCell(h) == [t |-> "float", n |-> h, s |-> <<>>]
BoolCell(b) == [t |-> "bool", n |-> IF b THEN 1 ELSE 0, s |-> <<>>]

EmptyStr == StrCell(<<>>)

IsNumber(c) == c.t \in {"bool", "int", "float"}

\* the value of a number cell, in hundredths
Hundredths(c) == IF c.t = "float" THEN c.n ELSE 100 * c.n

\* Python's ==
PyEq(a, b) ==
    IF IsNumber(a) /\ IsNumber(b) THEN Hundredths(a) = Hundredths(b)
    ELSE a.t = b.t /\ a.s = b.s

\* cell in ("", None)
IsBlank(c) == c.t = "none" \/ (c.t = "str" /\ c.s = <<>>)

\* Python's truth value of a cell
Truthy(c) ==
    CASE c.t = "none" -> FALSE
      [] c.t = "str" -> c.s # <<>>
      [] OTHER -> c.n # 0

(***************************************************************************)
(* CellCodec, writer side: _format_number, xml_escape, _cell_xml.          *)
(***************************************************************************)
Abs(i) == IF i < 0 THEN -i ELSE i

\* "{:.1f}".format(h / 100): the nearest tenth, an exact tie going to the even
\* digit.  An exact tie exists only for a binary-representable value (a
\* multiple of 0.25); the model draws no other float ending in 5 hundredths.
RoundToTenths(a) ==
    LET q == a \div 10
        r == a % 10
    IN  IF r < 5 THEN q
        ELSE IF r > 5 THEN q + 1
        ELSE IF q % 2 = 0 THEN q ELSE q + 1

SignChars(i) == IF i < 0 THEN <<"-">> ELSE <<>>

FormatFloat(value) ==
    LET t == RoundToTenths(Abs(value.n))
    IN  SignChars(value.n) \o NatToChars(t \div 10) \o <<".">>
            \o <<Digits[(t % 10) + 1]>>

\* str(value) for an int
FormatInt(value) == SignChars(value.n) \o NatToChars(Abs(value.n))

_format_number(value) ==
    IF value.t = "float" THEN FormatFloat(value) ELSE FormatInt(value)

EscapeChar(ch) ==
    CASE ch = "&" -> <<"&", "a", "m", "p", ";">>
      [] ch = ">" -> <<"&", "g", "t", ";">>
      [] ch = "<" -> <<"&", "l", "t", ";">>
      [] OTHER -> <<ch>>

RECURSIVE xml_escape(_)
xml_escape(data) ==
    IF data = <<>> THEN <<>>
    ELSE EscapeChar(Head(data)) \o xml_escape(Tail(data))

\* a <c> element: attribute r, attribute t ("" when absent), and its child:
\* none ("empty"), <is><t>body</t></is> ("is") or <v>body</v> ("v")
CellElement(ref, type, kind, body) ==
    [r |-> ref, t |-> type, kind |-> kind, body |-> body]

_cell_xml(value, row_idx, col_idx) ==
    LET ref == _column_letter(col_idx) \o NatToChars(row_idx)
    IN  IF IsBlank(value) THEN CellElement(ref, "", "empty", <<>>)
        ELSE IF value.t = "bool"
            THEN CellElement(ref, "inlineStr", "is",
                     IF value.n = 1 THEN <<"T", "R", "U", "E">>
                     ELSE <<"F", "A", "L", "S", "E">>)
        ELSE IF value.t \in {"int", "float"}
            THEN CellElement(ref, "", "v", _format_number(value))
        ELSE CellElement(ref, "inlineStr", "is", xml_escape(value.s))

(***************************************************************************)
(* DocumentWriter: _write_xlsx.  The container is modelled by its          *)
(* worksheet part (a sequence of <row> elements); the other five parts are *)
(* constant text.  The writer emits no xl/sharedStrings.xml.               *)
(***************************************************************************)
RowElement(row_idx, row) ==
    [r |-> row_idx,
     c |-> [col_idx \in 1..Len(row) |-> _cell_xml(row[col_idx], row_idx, col_idx)]]

SheetXml(headers, rws) ==
    LET all == <<headers>> \o rws
    IN  [row_idx \in 1..Len(all) |-> RowElement(row_idx, all[row_idx])]

AbsentFile == [st |-> "absent", sheet |-> <<>>, shared |-> <<>>]

\* the archive once it has been opened for writing and not yet closed
PartialFile == [st |-> "partial", sheet |-> <<>>, shared |-> <<>>]

_write_xlsx(headers, rws) ==
    [st |-> "complete", sheet |-> SheetXml(headers, rws), shared |-> <<>>]

(***************************************************************************)
(* CellCodec, reader side: the XML parser's entity decoding,               *)
(* _parse_cell_number, _get_cell_value.                                    *)
(***************************************************************************)
IsPrefix(p, seq) == Len(p) <= Len(seq) /\ SubSeq(seq, 1, Len(p)) = p

Drop(seq, k) == SubSeq(seq, k + 1, Len(seq))

RECURSIVE XmlText(_)
\* the character data the XML parser returns for an element's body
XmlText(body) ==
    IF body = <<>> THEN <<>>
    ELSE IF IsPrefix(<<"&", "a", "m", "p", ";">>, body)
        THEN <<"&">> \o XmlText(Drop(body, 5))
    ELSE IF IsPrefix(<<"&", "g", "t", ";">>, body)
        THEN <<">">> \o XmlText(Drop(body, 4))
    ELSE IF IsPrefix(<<"&", "l", "t", ";">>, body)
        THEN <<"<">> \o XmlText(Drop(body, 4))
    ELSE <<Head(body)>> \o XmlText(Tail(body))

AllDigits(chars) == chars # <<>> /\ \A i \in DOMAIN chars : chars[i] \in Range(Digits)

RECURSIVE CharsToNat(_)
CharsToNat(chars) ==
    IF chars = <<>> THEN 0
    ELSE 10 * CharsToNat(SubSeq(chars, 1, Len(chars) - 1))
             + (IndexOf(Digits, chars[Len(chars)]) - 1)

\* the places where text splits into an integer part and a fraction
DotPositions(chars) == {i \in DOMAIN chars : chars[i] = "."}

\* float(text) succeeds.  The model's numbers have at most two fractional
\* digits; payloads in exponent notation, "inf" and "nan" are not drawn.
IsFloatText(text) ==
    LET body == IF text # <<>> /\ Head(text) \in {"-", "+"} THEN Tail(text) ELSE text
        dots == DotPositions(body)
    IN  \/ AllDigits(body)
        \/ /\ Cardinality(dots) = 1
           /\ LET d == CHOOSE i \in dots : TRUE
                  ip == SubSeq(body, 1, d - 1)
                  fp == Drop(body, d)
              IN  /\ ip # <<>> \/ fp # <<>>
                  /\ ip = <<>> \/ AllDigits(ip)
                  /\ fp = <<>> \/ (AllDigits(fp) /\ Len(fp) <= 2)

\* float(text), in hundredths
FloatOfText(text) ==
    LET neg == text # <<>> /\ Head(text) = "-"
        body == IF text # <<>> /\ Head(text) \in {"-", "+"} THEN Tail(text) ELSE text
        dots == DotPositions(body)
        d == IF dots = {} THEN Len(body) + 1 ELSE CHOOSE i \in dots : TRUE
        ip == SubSeq(body, 1, d - 1)
        fp == Drop(body, IF d > Len(body) THEN Len(body) ELSE d)
        frac == IF Len(fp) = 0 THEN 0
                ELSE IF Len(fp) = 1 THEN 10 * CharsToNat(fp)
                ELSE CharsToNat(fp)
        mag == 100 * CharsToNat(ip) + frac
    IN  IF neg THEN -mag ELSE mag

_parse_cell_number(text) ==
    IF ~IsFloatText(text) THEN StrCell(text)
    ELSE LET value == FloatOfText(text)
         IN  IF value % 100 = 0 THEN IntCell(value \div 100) ELSE FloatCell(value)

\* an element's .text: None for an element without character data
HasText(cell) == cell.kind # "empty" /\ cell.body # <<>>

_get_cell_value(cell, shared_strings) ==
    IF cell.t = "inlineStr"
        THEN IF cell.kind = "is" THEN StrCell(XmlText(cell.body)) ELSE EmptyStr
    ELSE IF cell.t = "s"
        THEN IF cell.kind # "v" \/ ~HasText(cell) THEN EmptyStr
             ELSE IF ~AllDigits(XmlText(cell.body)) THEN EmptyStr
             ELSE LET index == CharsToNat(XmlText(cell.body))
                  IN  IF index < Len(shared_strings)
                      THEN StrCell(shared_strings[index + 1])
                      ELSE EmptyStr
    ELSE IF cell.kind # "v" \/ ~HasText(cell) THEN EmptyStr
    ELSE IF cell.t = "str" THEN StrCell(XmlText(cell.body))
    ELSE _parse_cell_number(XmlText(cell.body))

(***************************************************************************)
(* DocumentReader: _read_xlsx_rows.                                        *)
(***************************************************************************)
RECURSIVE LeadingLetters(_)
\* re.match(r"([A-Z]+)", ref): the leading capital letters of ref
LeadingLetters(ref) ==
    IF ref = <<>> \/ Head(ref) \notin Range(Alphabet) THEN <<>>
    ELSE <<Head(ref)>> \o LeadingLetters(Tail(ref))

\* while len(row_values) < col_index: row_values.append("")
BackFill(row_values, col_index) ==
    IF Len(row_values) >= col_index THEN row_values
    ELSE row_values \o [i \in 1..(col_index - Len(row_values)) |-> EmptyStr]

RECURSIVE ReadCells(_, _, _)
ReadCells(cells, shared_strings, row_values) ==
    IF cells = <<>> THEN row_values
    ELSE LET cell == Head(cells)
             letters == LeadingLetters(cell.r)
             col_index == _column_index(letters)
         IN  IF letters = <<>> \/ col_index <= 0
             THEN ReadCells(Tail(cells), shared_strings, row_values)
             ELSE ReadCells(Tail(cells), shared_strings,
                      [BackFill(row_values, col_index) EXCEPT
                           ![col_index] = _get_cell_value(cell, shared_strings)])

_read_xlsx_rows(f) ==
    IF f.st = "absent" THEN <<>>
    ELSE [i \in 1..Len(f.sheet) |-> ReadCells(f.sheet[i].c, f.shared, <<>>)]

(***************************************************************************)
(* update_weather.py: the configuration and the row helpers.               *)
(***************************************************************************)
HEADERS ==
    <<StrCell(<<"d", "a", "t", "e">>),
      StrCell(<<"c", "o", "n", "c", "e", "l", "h", "o">>),
      StrCell(<<"t", "_", "m", "i", "n", "_", "c">>),
      StrCell(<<"t", "_", "m", "a", "x", "_", "c">>),
      StrCell(<<"w", "i", "n", "d", "_", "m", "a", "x", "_", "k", "m", "h">>),
      StrCell(<<"w", "i", "n", "d", "_", "m", "a", "x", "_", "d", "i", "r">>),
      StrCell(<<"w", "i", "n", "d", "_", "s", "e", "c", "o", "n", "d", "_",
                "m", "a", "x", "_", "k", "m", "h">>),
      StrCell(<<"w", "i", "n", "d", "_", "s", "e", "c", "o", "n", "d", "_",
                "m", "a", "x", "_", "d", "i", "r">>)>>

AllConcelhos ==
    <<<<"S", "o", "b", "r", "a", "l", " ", "d", "e", " ", "M", "o", "n", "t", "e", " ", "A", "g", "r", "a", "c", "o">>,
      <<"T", "o", "r", "r", "e", "s", " ", "V", "e", "d", "r", "a", "s">>,
      <<"L", "o", "u", "r", "i", "n", "h", "a">>,
      <<"C", "a", "l", "d", "a", "s", " ", "d", "a", " ", "R", "a", "i", "n", "h", "a">>,
      <<"C", "a", "d", "a", "v", "a", "l">>,
      <<"B", "o", "m", "b", "a", "r", "r", "a", "l">>,
      <<"P", "e", "n", "i", "c", "h", "e">>,
      <<"O", "b", "i", "d", "o", "s">>>>

\* the configured locations; the model keeps the first MaxLocations of them
CONCELHOS == SubSeq(AllConcelhos, 1, MaxLocations)

LowerAlphabet == <<"a", "b", "c", "d", "e", "f", "g", "h", "i", "j", "k", "l", "m",
                   "n", "o", "p", "q", "r", "s", "t", "u", "v", "w", "x", "y", "z">>

\* str.lower()
Lower(chars) ==
    [i \in DOMAIN chars |->
        IF chars[i] \in Range(Alphabet)
        THEN LowerAlphabet[IndexOf(Alphabet, chars[i])] ELSE chars[i]]

RECURSIVE LStrip(_)
LStrip(chars) ==
    IF chars # <<>> /\ Head(chars) = " " THEN LStrip(Tail(chars)) ELSE chars

RECURSIVE RStrip(_)
RStrip(chars) ==
    IF chars # <<>> /\ chars[Len(chars)] = " "
    THEN RStrip(SubSeq(chars, 1, Len(chars) - 1)) ELSE chars

\* str.strip()
Strip(chars) == RStrip(LStrip(chars))

\* str(value), for the values a cell can hold
StrOf(c) ==
    CASE c.t = "none" -> <<"N", "o", "n", "e">>
      [] c.t = "bool" -> IF c.n = 1 THEN <<"T", "r", "u", "e">>
                         ELSE <<"F", "a", "l", "s", "e">>
      [] c.t = "int" -> FormatInt(c)
      [] c.t = "float" ->
            SignChars(c.n) \o NatToChars(Abs(c.n) \div 100) \o <<".">>
                \o <<Digits[((Abs(c.n) \div 10) % 10) + 1]>>
                \o (IF Abs(c.n) % 10 = 0 THEN <<>>
                    ELSE <<Digits[(Abs(c.n) % 10) + 1]>>)
      [] OTHER -> c.s

\* str(value).strip().lower()
NormCell(c) == Lower(Strip(StrOf(c)))

_pad_row(row, size) ==
    SubSeq(IF Len(row) < size
           THEN row \o [i \in 1..(size - Len(row)) |-> EmptyStr] ELSE row,
           1, size)

_is_header_row(row, headers) ==
    IF row = <<>> THEN FALSE
    ELSE LET header_norm == [i \in DOMAIN headers |-> Lower(Strip(headers[i].s))]
             cut == SubSeq(row, 1, IF Len(row) < Len(headers) THEN Len(row)
                                   ELSE Len(headers))
             row_norm == [i \in DOMAIN cut |-> NormCell(cut[i])]
         IN  row_norm = header_norm

_normalize_existing_rows(rws, headers) ==
    IF rws = <<>> THEN rws
    ELSE LET header_norm == [i \in DOMAIN rws[1] |-> NormCell(rws[1][i])]
             hits == {i \in DOMAIN header_norm : header_norm[i] = <<"d", "a", "t", "e">>}
         IN  IF hits = {} THEN rws
             ELSE LET date_index == (CHOOSE i \in hits : \A j \in hits : i <= j) - 1
                  IN  IF date_index = 0 THEN rws
                      ELSE IF \E r \in DOMAIN rws :
                                 \E i \in DOMAIN rws[r] :
                                     i <= date_index /\ ~IsBlank(rws[r][i])
                          THEN rws
                      ELSE [r \in DOMAIN rws |-> Drop(rws[r],
                               IF date_index > Len(rws[r]) THEN Len(rws[r])
                               ELSE date_index)]

_is_empty_row(row) == \A i \in DOMAIN row : IsBlank(row[i])

(***************************************************************************)
(* BlockSplitter: _split_day_blocks.  A block is [date, rows]; the loop's  *)
(* state is (blocks, current_rows, current_date).                          *)
(***************************************************************************)
Block(date, rws) == [date |-> date, rows |-> rws]

\* faulty variant: a block open under the empty key is closed by a dated row
RECURSIVE SplitLoopFlushOnEmptyKey(_, _, _, _)
SplitLoopFlushOnEmptyKey(rws, blks, current_rows, current_date) ==
    IF rws = <<>>
    THEN IF current_rows # <<>>
         THEN Append(blks, Block(current_date, current_rows)) ELSE blks
    ELSE LET row == Head(rws)
             rest == Tail(rws)
         IN  IF _is_empty_row(row)
             THEN IF current_rows # <<>>
                  THEN SplitLoopFlushOnEmptyKey(
                           rest, Append(blks, Block(current_date, current_rows)),
                           <<>>, None)
                  ELSE SplitLoopFlushOnEmptyKey(rest, blks, current_rows, current_date)
             ELSE LET row_date == IF row # <<>> THEN row[1] ELSE EmptyStr
                      flush == /\ ~IsBlank(row_date)
                               /\ current_rows # <<>>
                               /\ ~PyEq(row_date, current_date)
                      blks1 == IF flush
                               THEN Append(blks, Block(current_date, current_rows))
                               ELSE blks
                      rows1 == IF flush THEN <<>> ELSE current_rows
                      date1 == IF ~IsBlank(row_date) THEN row_date ELSE current_date
                      date2 == IF date1.t = "none" THEN row_date ELSE date1
                  IN  SplitLoopFlushOnEmptyKey(rest, blks1, Append(rows1, row), date2)

RECURSIVE SplitLoop(_, _, _, _)
SplitLoop(rws, blks, current_rows, current_date) ==
    IF rws = <<>>
    THEN IF current_rows # <<>>
         THEN Append(blks, Block(current_date, current_rows)) ELSE blks
    ELSE LET row == Head(rws)
             rest == Tail(rws)
         IN  IF _is_empty_row(row)
             THEN IF current_rows # <<>>
                  THEN SplitLoop(rest, Append(blks, Block(current_date, current_rows)),
                                 <<>>, None)
                  ELSE SplitLoop(rest, blks, current_rows, current_date)
             ELSE LET row_date == IF row # <<>> THEN row[1] ELSE EmptyStr
                      flush == /\ ~IsBlank(row_date)
                               /\ current_rows # <<>>
                               /\ ~IsBlank(current_date)
                               /\ ~PyEq(row_date, current_date)
                      blks1 == IF flush
                               THEN Append(blks, Block(current_date, current_rows))
                               ELSE blks
                      rows1 == IF flush THEN <<>> ELSE current_rows
                      date1 == IF ~IsBlank(row_date) THEN row_date ELSE current_date
                      date2 == IF date1.t = "none" THEN row_date ELSE date1
                  IN  SplitLoop(rest, blks1, Append(rows1, row), date2)

_split_day_blocks(rws) == SplitLoop(rws, <<>>, <<>>, None)

_ensure_block_date(rws, date_value) ==
    IF IsBlank(date_value) THEN rws
    ELSE LET kept == SelectSeq(rws, LAMBDA row : row # <<>>)
         IN  [i \in DOMAIN kept |-> [kept[i] EXCEPT ![1] = date_value]]

(***************************************************************************)
(* BlockMerger: the merge of main.  The dict block_map is modelled by the  *)
(* sequence of its values in insertion order, which is the order of        *)
(* ordered_dates: block_map[i] holds the rows kept for ordered_dates[i].   *)
(***************************************************************************)
\* date_value in block_map
HasKey(dates, date_value) == \E i \in DOMAIN dates : PyEq(dates[i], date_value)

KeyIndex(dates, date_value) == CHOOSE i \in DOMAIN dates : PyEq(dates[i], date_value)

\* faulty variant: no block is skipped
DistinctBlocksKeepAll(blks, kept) == kept \o blks

RECURSIVE DistinctBlocks(_, _)
\* the loop over blocks: a block whose key is already in block_map is skipped
DistinctBlocks(blks, kept) ==
    IF blks = <<>> THEN kept
    ELSE IF HasKey([i \in DOMAIN kept |-> kept[i].date], Head(blks).date)
        THEN DistinctBlocks(Tail(blks), kept)
    ELSE DistinctBlocks(Tail(blks), Append(kept, Head(blks)))

\* faulty variant: the run's block is appended even when its key is in block_map
MergeBlocksAlwaysAppend(blks, date, rws) ==
    Append(DistinctBlocks(blks, <<>>), Block(date, rws))

\* faulty variant: the block of the run date is moved to the end
MergeBlocksReplaceAtEnd(blks, date, rws) ==
    LET kept == DistinctBlocks(blks, <<>>)
    IN  Append(SelectSeq(kept, LAMBDA b : ~PyEq(b.date, date)), Block(date, rws))

\* faulty variant: a new key is put first
MergeBlocksPrepend(blks, date, rws) ==
    LET kept == DistinctBlocks(blks, <<>>)
        dates == [i \in DOMAIN kept |-> kept[i].date]
    IN  IF HasKey(dates, date)
        THEN [kept EXCEPT ![KeyIndex(dates, date)].rows = rws]
        ELSE <<Block(date, rws)>> \o kept

\* ordered_dates and block_map once the run's block is merged in, as the
\* sequence of blocks [date, rows]
MergeBlocks(blks, date, rws) ==
    LET kept == DistinctBlocks(blks, <<>>)
        dates == [i \in DOMAIN kept |-> kept[i].date]
    IN  IF HasKey(dates, date)
        THEN [kept EXCEPT ![KeyIndex(dates, date)].rows = rws]
        ELSE Append(kept, Block(date, rws))

RECURSIVE EmitRowsNoLastSeparator(_, _, _)
\* faulty variant: no empty row after the last block
EmitRowsNoLastSeparator(dates, map, size) ==
    IF dates = <<>> THEN <<>>
    ELSE LET block_rows == _ensure_block_date(Head(map), Head(dates))
         IN  [i \in DOMAIN block_rows |-> _pad_row(block_rows[i], size)]
                 \o (IF Tail(dates) = <<>> THEN <<>>
                     ELSE <<[i \in 1..size |-> EmptyStr]>>)
                 \o EmitRowsNoLastSeparator(Tail(dates), Tail(map), size)

RECURSIVE EmitRows(_, _, _)
\* final_rows: each block's rows, then one empty row
EmitRows(dates, map, size) ==
    IF dates = <<>> THEN <<>>
    ELSE LET block_rows == _ensure_block_date(Head(map), Head(dates))
         IN  [i \in DOMAIN block_rows |-> _pad_row(block_rows[i], size)]
                 \o <<[i \in 1..size |-> EmptyStr]>>
                 \o EmitRows(Tail(dates), Tail(map), size)

\* lines 553-579 as one function: the final rows for the rows of a document
\* (header stripped), a run date and the run's rows
ContainerMerge(existing_rows, date, rws) ==
    LET hist == [i \in DOMAIN existing_rows |-> _pad_row(existing_rows[i], Len(HEADERS))]
        merged == MergeBlocks(_split_day_blocks(hist), date, rws)
    IN  EmitRows([i \in DOMAIN merged |-> merged[i].date],
                 [i \in DOMAIN merged |-> merged[i].rows], Len(HEADERS))

\* the first truthy date of the fetched rows, "" when there is none
RunDate(rws) ==
    LET dated == {i \in DOMAIN rws : Truthy(rws[i][1])}
    IN  IF dated = {} THEN EmptyStr
        ELSE rws[CHOOSE i \in dated : \A j \in dated : i <= j][1]

\* existing_data_rows: the rows read, normalized, the header dropped, padded
ExistingDataRows(f, headers) ==
    LET read == _normalize_existing_rows(_read_xlsx_rows(f), headers)
        body == IF read # <<>> /\ _is_header_row(read[1], headers)
                THEN Tail(read) ELSE read
    IN  [i \in DOMAIN body |-> _pad_row(body[i], Len(headers))]

\* the variables of the container program, before any run
ContainerIdle ==
    /\ file = AbsentFile
    /\ old_file = AbsentFile
    /\ loc = 1
    /\ rows = <<>> /\ errors = <<>> /\ run_date = EmptyStr /\ data_rows = <<>>
    /\ existing_data_rows = <<>> /\ blocks = <<>> /\ ordered_dates = <<>>
    /\ block_map = <<>> /\ final_rows = <<>>
    /\ runs = 0

\* the variables of the remote program, before any run
RemoteIdle ==
    /\ sheet = <<>> /\ existing = <<>> /\ today_rows = <<>> /\ new_sheet = <<>>

(***************************************************************************)
(* Specification SpecCodec: _write_xlsx followed by _read_xlsx_rows on     *)
(* bounded documents.                                                      *)
(***************************************************************************)
\* the cell values the codec is checked on: absent, empty text, booleans,
\* integers, floats (10.5, 5.0, 1.25, 1.75, -0.04, -2.5) and texts
CodecCells ==
    {None, EmptyStr, BoolCell(TRUE), BoolCell(FALSE),
     IntCell(0), IntCell(12), IntCell(-3),
     FloatCell(1050), FloatCell(500), FloatCell(125), FloatCell(175),
     FloatCell(-4), FloatCell(-250),
     StrCell(<<"a">>), StrCell(<<"&">>), StrCell(<<"<", "a", ">">>),
     StrCell(<<"5">>), StrCell(<<" ">>), StrCell(<<"&", "l", "t", ";">>)}

SeqsUpTo(S, k) == UNION {[1..m -> S] : m \in 0..k}

Repeat(x, k) == [i \in 1..k |-> x]

CodecHeaders == {HEADERS, <<>>, <<StrCell(<<"a">>), StrCell(<<"<">>)>>}

\* the documents drawn: a row repeated, and a row on both sides of an empty one
CodecDocs(row) ==
    {Repeat(row, k) : k \in 0..MaxCodecRows} \cup {<<row, <<>>, row>>}

CodecInit ==
    /\ pc = "codec_start"
    /\ \E headers \in CodecHeaders, row \in SeqsUpTo(CodecCells, MaxCodecCols) :
         \E rws \in CodecDocs(row) :
            arg = [headers |-> headers, rows |-> rws]
    /\ res = <<>>
    /\ ContainerIdle
    /\ RemoteIdle

WriteDocument ==
    /\ pc = "codec_start"
    /\ file' = _write_xlsx(arg.headers, arg.rows)
    /\ pc' = "codec_written"
    /\ UNCHANGED <<old_file, loc, runs>>
    /\ UNCHANGED main_locals
    /\ UNCHANGED remote_vars
    /\ UNCHANGED pure_vars

ReadDocument ==
    /\ pc = "codec_written"
    /\ res' = _read_xlsx_rows(file)
    /\ pc' = "codec_read"
    /\ UNCHANGED <<arg, runs>>
    /\ UNCHANGED container_vars
    /\ UNCHANGED remote_vars

CodecNext == WriteDocument \/ ReadDocument

SpecCodec == CodecInit /\ [][CodecNext]_vars

\* absent and empty text are one value
Collapse(c) == IF IsBlank(c) THEN EmptyStr ELSE c

\* what a written cell is read back as: a boolean as the text TRUE or FALSE, a
\* float as the nearest number with one fractional digit
ReadBackOf(c) ==
    CASE c.t = "bool" ->
            StrCell(IF c.n = 1 THEN <<"T", "R", "U", "E">>
                    ELSE <<"F", "A", "L", "S", "E">>)
      [] c.t = "float" ->
            FloatCell((IF c.n < 0 THEN -10 ELSE 10) * RoundToTenths(Abs(c.n)))
      [] OTHER -> Collapse(c)

RowsAgree(written, read, Eq(_, _)) ==
    /\ Len(read) = Len(written)
    /\ \A i \in DOMAIN written :
          /\ Len(read[i]) = Len(written[i])
          /\ \A j \in DOMAIN written[i] : Eq(written[i][j], read[i][j])

\* C9 as stated: the rows read back equal the header followed by the rows
\* written, cell by cell, absent and empty text being one value.
C9_RoundTripAsStated ==
    pc = "codec_read" =>
        RowsAgree(<<arg.headers>> \o arg.rows, res,
                  LAMBDA w, r : PyEq(Collapse(w), Collapse(r)))

\* C9 amended: the rows read back equal the header followed by the rows
\* written, cell by cell, where absent and empty text are one value, a boolean
\* is read back as the text TRUE or FALSE and a float as the number its
\* one-fractional-digit rendering denotes.
C9_RoundTrip ==
    pc = "codec_read" =>
        RowsAgree(<<arg.headers>> \o arg.rows, res,
                  LAMBDA w, r : PyEq(ReadBackOf(w), Collapse(r)))

\* C9 witness: a document holding an absent cell and an escaped text, written
\* beside its header and read back
C9_Witness ==
    /\ pc = "codec_read"
    /\ arg.headers = HEADERS
    /\ arg.rows = <<<<None, StrCell(<<"<", "a", ">">>)>>>>
    /\ res = <<HEADERS, <<EmptyStr, StrCell(<<"<", "a", ">">>)>>>>


(***************************************************************************)
(* update_weather.main, one step per loop iteration and per effect on      *)
(* results.xlsx.                                                           *)
(*   pc = "idle"     no run yet                                            *)
(*   pc = "fetch"    in the loop over CONCELHOS, at location loc           *)
(*   pc = "write"    final_rows computed, _write_xlsx about to open        *)
(*   pc = "writing"  the archive is open for writing                       *)
(*   pc = "done"     the run returned                                      *)
(*   pc = "aborted"  the run ended with an exception                       *)
(***************************************************************************)
D1 == <<"2", "0", "2", "4", "-", "0", "1", "-", "0", "1">>
D2 == <<"2", "0", "2", "4", "-", "0", "1", "-", "0", "2">>

\* the dates the forecast service answers with
DateKeys == {D1, D2}

\* the row of a location before its fetch: no date, no measurements
BlankRow(concelho) ==
    <<EmptyStr, StrCell(concelho), None, None, None, EmptyStr, None, EmptyStr>>

\* the row of a location whose geocode and forecast were fetched
FetchedRow(concelho, date) ==
    <<StrCell(date), StrCell(concelho), FloatCell(950), FloatCell(1800),
      FloatCell(3250), StrCell(<<"N", "W">>), FloatCell(2870),
      StrCell(<<"W", ",", "N", "W">>)>>

StartRun ==
    /\ pc \in {"idle", "done", "aborted"}
    /\ runs < MaxRuns
    /\ runs' = runs + 1
    /\ pc' = "fetch"
    /\ loc' = 1
    /\ old_file' = file
    /\ rows' = <<>> /\ errors' = <<>> /\ run_date' = EmptyStr /\ data_rows' = <<>>
    /\ existing_data_rows' = <<>> /\ blocks' = <<>> /\ ordered_dates' = <<>>
    /\ block_map' = <<>> /\ final_rows' = <<>>
    /\ UNCHANGED file
    /\ UNCHANGED remote_vars
    /\ UNCHANGED pure_vars

InFetchLoop == pc = "fetch" /\ loc <= Len(CONCELHOS)

fetch_frame == <<file, old_file, run_date, data_rows, existing_data_rows, blocks,
                 ordered_dates, block_map, final_rows, runs>>

\* _geocode and _forecast_today both return
FetchOk ==
    /\ InFetchLoop
    /\ \E date \in DateKeys :
          rows' = Append(rows, FetchedRow(CONCELHOS[loc], date))
    /\ loc' = loc + 1
    /\ UNCHANGED <<pc, errors>>
    /\ UNCHANGED fetch_frame
    /\ UNCHANGED remote_vars
    /\ UNCHANGED pure_vars

\* _geocode returns None: geocode_not_found
FetchGeocodeNotFound ==
    /\ InFetchLoop
    /\ errors' = Append(errors, CONCELHOS[loc])
    /\ rows' = Append(rows, BlankRow(CONCELHOS[loc]))
    /\ loc' = loc + 1
    /\ UNCHANGED pc
    /\ UNCHANGED fetch_frame
    /\ UNCHANGED remote_vars
    /\ UNCHANGED pure_vars

\* _geocode or _forecast_today raises URLError, JSONDecodeError or KeyError,
\* which the loop catches
FetchRaisesCaught ==
    /\ InFetchLoop
    /\ errors' = Append(errors, CONCELHOS[loc])
    /\ rows' = Append(rows, BlankRow(CONCELHOS[loc]))
    /\ loc' = loc + 1
    /\ UNCHANGED pc
    /\ UNCHANGED fetch_frame
    /\ UNCHANGED remote_vars
    /\ UNCHANGED pure_vars

\* _geocode or _forecast_today raises any other exception (a socket timeout
\* while the response is read, a UnicodeDecodeError, an AttributeError):
\* nothing catches it and the run ends
FetchRaisesUncaught ==
    /\ InFetchLoop
    /\ pc' = "aborted"
    /\ UNCHANGED <<loc, rows, errors>>
    /\ UNCHANGED fetch_frame
    /\ UNCHANGED remote_vars
    /\ UNCHANGED pure_vars

\* lines 529-579: data_rows and run_date, the history read from results.xlsx,
\* the split and the merge
Merge ==
    /\ pc = "fetch" /\ loc > Len(CONCELHOS)
    /\ file.st # "partial"
    /\ data_rows' = rows
    /\ run_date' = RunDate(rows)
    /\ existing_data_rows' = ExistingDataRows(file, HEADERS)
    /\ blocks' = _split_day_blocks(existing_data_rows')
    /\ LET merged == MergeBlocks(blocks', run_date', data_rows')
       IN  /\ ordered_dates' = [i \in DOMAIN merged |-> merged[i].date]
           /\ block_map' = [i \in DOMAIN merged |-> merged[i].rows]
    /\ final_rows' = EmitRows(ordered_dates', block_map', Len(HEADERS))
    /\ pc' = "write"
    /\ UNCHANGED <<file, old_file, loc, rows, errors, runs>>
    /\ UNCHANGED remote_vars
    /\ UNCHANGED pure_vars

\* _read_xlsx_rows on an archive that was never closed: zipfile raises
\* BadZipFile and the run ends
ReadRaises ==
    /\ pc = "fetch" /\ loc > Len(CONCELHOS)
    /\ file.st = "partial"
    /\ pc' = "aborted"
    /\ UNCHANGED container_vars
    /\ UNCHANGED runs
    /\ UNCHANGED remote_vars
    /\ UNCHANGED pure_vars

\* zipfile.ZipFile(output_path, "w"): the file is truncated
WriteOpen ==
    /\ pc = "write"
    /\ file' = PartialFile
    /\ pc' = "writing"
    /\ UNCHANGED <<old_file, loc, runs>>
    /\ UNCHANGED main_locals
    /\ UNCHANGED remote_vars
    /\ UNCHANGED pure_vars

\* the six parts are written and the archive is closed
WriteClose ==
    /\ pc = "writing"
    /\ file' = _write_xlsx(HEADERS, final_rows)
    /\ pc' = "done"
    /\ UNCHANGED <<old_file, loc, runs>>
    /\ UNCHANGED main_locals
    /\ UNCHANGED remote_vars
    /\ UNCHANGED pure_vars

\* the write fails (storage unavailable) or the process is interrupted before
\* the archive is closed
WriteInterrupted ==
    /\ pc = "writing"
    /\ pc' = "aborted"
    /\ UNCHANGED container_vars
    /\ UNCHANGED runs
    /\ UNCHANGED remote_vars
    /\ UNCHANGED pure_vars

Next ==
    \/ StartRun
    \/ FetchOk
    \/ FetchGeocodeNotFound
    \/ FetchRaisesCaught
    \/ FetchRaisesUncaught
    \/ Merge
    \/ ReadRaises
    \/ WriteOpen
    \/ WriteClose
    \/ WriteInterrupted

Init ==
    /\ pc = "idle"
    /\ ContainerIdle
    /\ RemoteIdle
    /\ arg = <<>>
    /\ res = <<>>

\* runs of update_weather.main starting from no document
Spec == Init /\ [][Next]_vars

(***************************************************************************)
(* Specification SpecHist: one run of update_weather.main on a document    *)
(* that holds an arbitrary bounded history: blocks with or without         *)
(* separators between them, rows without a date key, repeated date keys;   *)
(* or no document, or the archive an interrupted run left behind.          *)
(***************************************************************************)
HistRow(date, t_min_c) ==
    <<date, StrCell(AllConcelhos[1]), IntCell(t_min_c), IntCell(14),
      FloatCell(2150), StrCell(<<"S">>), EmptyStr, EmptyStr>>

\* two rows for D1, a row for D2 narrower than the header, a row without a
\* date key wider than the header, and an all-empty row
HistRows ==
    {HistRow(StrCell(D1), 5), HistRow(StrCell(D1), 7),
     <<StrCell(D2), StrCell(AllConcelhos[1]), IntCell(5)>>,
     Append(HistRow(EmptyStr, 5), IntCell(9)),
     [i \in 1..Len(HEADERS) |-> EmptyStr]}

HistInit ==
    /\ pc = "idle"
    /\ \/ \E hist \in SeqsUpTo(HistRows, MaxHistRows) :
             file = _write_xlsx(HEADERS, hist)
       \/ file \in {AbsentFile, PartialFile}
    /\ old_file = AbsentFile
    /\ loc = 1
    /\ rows = <<>> /\ errors = <<>> /\ run_date = EmptyStr /\ data_rows = <<>>
    /\ existing_data_rows = <<>> /\ blocks = <<>> /\ ordered_dates = <<>>
    /\ block_map = <<>> /\ final_rows = <<>>
    /\ runs = MaxRuns - 1
    /\ RemoteIdle
    /\ arg = <<>>
    /\ res = <<>>

SpecHist == HistInit /\ [][Next]_vars

(***************************************************************************)
(* update_weather_google_sheet.py.  The hosted sheet is the sequence of    *)
(* rows last written to it: values().clear() empties it, values().update() *)
(* stores the rows given, values().get() returns the rows stored.          *)
(*   pc = "r_idle"     no run yet                                          *)
(*   pc = "r_fetch"    the sheet is read, in the loop over CONCELHOS       *)
(*   pc = "r_write"    new_sheet computed, write_sheet about to start      *)
(*   pc = "r_cleared"  write_sheet has cleared the sheet                   *)
(*   pc = "r_done"     the run returned                                    *)
(*   pc = "r_aborted"  the run ended with an exception                     *)
(***************************************************************************)
read_sheet(values) == values

\* the row main builds from _geocode and _forecast_today
RemoteRow(concelho, date) ==
    <<StrCell(date), StrCell(concelho), FloatCell(950), FloatCell(1800),
      FloatCell(3250), StrCell(<<"N", "W">>), FloatCell(2870),
      StrCell(<<"N", "W", ",", "W">>)>>

RECURSIVE RemoveBlockLoop(_, _, _, _)
\* "remove existing block for today": the loop over existing[1:]
RemoveBlockLoop(rws, date, skip, kept) ==
    IF rws = <<>> THEN kept
    ELSE LET row == Head(rws)
         IN  IF row # <<>> /\ PyEq(row[1], date)
             THEN RemoveBlockLoop(Tail(rws), date, TRUE, kept)
             ELSE LET skip1 == IF skip /\ row # <<>> /\ Truthy(row[1])
                               THEN FALSE ELSE skip
                  IN  RemoveBlockLoop(Tail(rws), date, skip1,
                          IF skip1 THEN kept ELSE Append(kept, row))

\* new_sheet: the header, the rows kept, an empty line when any row precedes,
\* today's rows
RemoteMerge(existing_rows, date, today) ==
    LET kept == RemoveBlockLoop(Tail(existing_rows), date, FALSE, <<HEADERS>>)
    IN  (IF Len(kept) > 1
         THEN Append(kept, [i \in 1..Len(HEADERS) |-> EmptyStr]) ELSE kept)
            \o today

RemoteStart ==
    /\ pc \in {"r_idle", "r_done", "r_aborted"}
    /\ runs < MaxRemoteRuns
    /\ runs' = runs + 1
    /\ existing' = IF read_sheet(sheet) = <<>> THEN <<HEADERS>> ELSE read_sheet(sheet)
    /\ today_rows' = <<>>
    /\ run_date' = None
    /\ new_sheet' = <<>>
    /\ loc' = 1
    /\ pc' = "r_fetch"
    /\ UNCHANGED <<sheet, file, old_file, rows, errors, data_rows,
                   existing_data_rows, blocks, ordered_dates, block_map,
                   final_rows>>
    /\ UNCHANGED pure_vars

remote_frame == <<file, old_file, rows, errors, data_rows, existing_data_rows,
                  blocks, ordered_dates, block_map, final_rows, runs>>

RemoteFetchOk ==
    /\ pc = "r_fetch" /\ loc <= Len(CONCELHOS)
    /\ \E date \in DateKeys :
          /\ run_date' = StrCell(date)
          /\ today_rows' = Append(today_rows, RemoteRow(CONCELHOS[loc], date))
    /\ loc' = loc + 1
    /\ UNCHANGED <<pc, sheet, existing, new_sheet>>
    /\ UNCHANGED remote_frame
    /\ UNCHANGED pure_vars

\* _geocode or _forecast_today raises, or _geocode finds nothing and
\* geo["latitude"] raises: main catches nothing and the run ends
RemoteFetchRaises ==
    /\ pc = "r_fetch" /\ loc <= Len(CONCELHOS)
    /\ pc' = "r_aborted"
    /\ UNCHANGED <<loc, run_date>>
    /\ UNCHANGED remote_vars
    /\ UNCHANGED remote_frame
    /\ UNCHANGED pure_vars

RemoteMergeStep ==
    /\ pc = "r_fetch" /\ loc > Len(CONCELHOS)
    /\ new_sheet' = RemoteMerge(existing, run_date, today_rows)
    /\ pc' = "r_write"
    /\ UNCHANGED <<loc, run_date, sheet, existing, today_rows>>
    /\ UNCHANGED remote_frame
    /\ UNCHANGED pure_vars

\* write_sheet: values().clear()
RemoteClear ==
    /\ pc = "r_write"
    /\ sheet' = <<>>
    /\ pc' = "r_cleared"
    /\ UNCHANGED <<loc, run_date, existing, today_rows, new_sheet>>
    /\ UNCHANGED remote_frame
    /\ UNCHANGED pure_vars

\* write_sheet: values().update()
RemoteUpdate ==
    /\ pc = "r_cleared"
    /\ sheet' = new_sheet
    /\ pc' = "r_done"
    /\ UNCHANGED <<loc, run_date, existing, today_rows, new_sheet>>
    /\ UNCHANGED remote_frame
    /\ UNCHANGED pure_vars

\* the update request fails, or the process is interrupted after the clear
RemoteUpdateRaises ==
    /\ pc = "r_cleared"
    /\ pc' = "r_aborted"
    /\ UNCHANGED <<loc, run_date>>
    /\ UNCHANGED remote_vars
    /\ UNCHANGED remote_frame
    /\ UNCHANGED pure_vars

RemoteNext ==
    \/ RemoteStart
    \/ RemoteFetchOk
    \/ RemoteFetchRaises
    \/ RemoteMergeStep
    \/ RemoteClear
    \/ RemoteUpdate
    \/ RemoteUpdateRaises

RemoteInit ==
    /\ pc = "r_idle"
    /\ ContainerIdle
    /\ RemoteIdle
    /\ arg = <<>>
    /\ res = <<>>

\* runs of update_weather_google_sheet.main starting from an empty sheet
SpecRemote == RemoteInit /\ [][RemoteNext]_vars

(***************************************************************************)
(* Properties of the merge.                                                *)
(***************************************************************************)
\* the run has computed final_rows
Merged == pc \in {"write", "writing", "done"}

RECURSIVE RunsLoop(_, _, _)
RunsLoop(rws, done, current) ==
    IF rws = <<>> THEN IF current = <<>> THEN done ELSE Append(done, current)
    ELSE IF \A i \in DOMAIN Head(rws) : IsBlank(Head(rws)[i])
        THEN RunsLoop(Tail(rws), IF current = <<>> THEN done ELSE Append(done, current),
                      <<>>)
    ELSE RunsLoop(Tail(rws), done, Append(current, Head(rws)))

\* the maximal runs of rows that are not all-empty
NonEmptyRuns(rws) == RunsLoop(rws, <<>>, <<>>)

EmptyRowIndexes(rws) ==
    {i \in DOMAIN rws : \A j \in DOMAIN rws[i] : IsBlank(rws[i][j])}

\* rws, each row with key in its first column (unchanged for the empty key)
CarryKey(rws, key) ==
    IF IsBlank(key) THEN rws
    ELSE [i \in DOMAIN rws |-> [rws[i] EXCEPT ![1] = key]]

BlockDates(blks) == [i \in DOMAIN blks |-> blks[i].date]

KeysDistinct(dates) ==
    \A i, j \in DOMAIN dates : i # j => ~PyEq(dates[i], dates[j])

\* the indexes of the blocks that are the first with their key
FirstIndexes(blks) ==
    {i \in DOMAIN blks : \A j \in 1..(i - 1) : ~PyEq(blks[j].date, blks[i].date)}

\* the position of i among the indexes of S
Rank(S, i) == Cardinality({j \in S : j <= i})

\* the blocks that are the first with their key, in order
FirstBlocks(blks) ==
    LET S == FirstIndexes(blks)
    IN  [k \in 1..Cardinality(S) |-> blks[CHOOSE i \in S : Rank(S, i) = k]]

\* C1 as stated: history with distinct keys holding a block for the run date:
\* in the final rows that block is exactly the new rows, in its old position,
\* and every other block has the same rows, in the same order.
C1_SameDayRerunAsStated ==
    (Merged /\ KeysDistinct(BlockDates(blocks)) /\ HasKey(BlockDates(blocks), run_date))
    => LET F == NonEmptyRuns(final_rows)
       IN  /\ Len(F) = Len(blocks)
           /\ \A i \in DOMAIN blocks :
                 F[i] = IF PyEq(blocks[i].date, run_date) THEN data_rows
                        ELSE blocks[i].rows

\* C1 amended: history with distinct keys holding a block for the run date D:
\* in the final rows D's block is the new rows, each with D in its first
\* column, in the position the old D block had; every other block has its
\* rows, each with the block's key in its first column (a block with the empty
\* key unchanged), in the same order.
C1_SameDayRerun ==
    (Merged /\ KeysDistinct(BlockDates(blocks)) /\ HasKey(BlockDates(blocks), run_date))
    => LET F == NonEmptyRuns(final_rows)
       IN  /\ Len(F) = Len(blocks)
           /\ \A i \in DOMAIN blocks :
                 F[i] = IF PyEq(blocks[i].date, run_date)
                        THEN CarryKey(data_rows, run_date)
                        ELSE CarryKey(blocks[i].rows, blocks[i].date)

\* C1 witness: the run date's block is the first of two blocks, and its rows
\* are replaced by different ones while the second block follows
C1_Witness ==
    /\ Merged
    /\ Len(blocks) = 2
    /\ KeysDistinct(BlockDates(blocks))
    /\ PyEq(blocks[1].date, run_date)
    /\ blocks[1].rows # CarryKey(data_rows, run_date)
    /\ NonEmptyRuns(final_rows) =
          <<CarryKey(data_rows, run_date), blocks[2].rows>>

\* C2 as stated: a run date D2 that is no key of the history: the final rows
\* are all historical blocks, rows unaltered, in order, then the new D2 block
\* (the run's rows under the key D2).
C2_HistoryPreservedAsStated ==
    (Merged /\ ~HasKey(BlockDates(blocks), run_date))
    => NonEmptyRuns(final_rows) =
          [i \in DOMAIN blocks |-> blocks[i].rows]
              \o <<CarryKey(data_rows, run_date)>>

\* C2 amended: a run date D2 that is no key of the history: the final rows are
\* the historical blocks that are the first with their key, in order, each row
\* with its block's key in its first column and otherwise unaltered, then the
\* new block, each row with D2 in its first column, as the last block.
C2_HistoryPreserved ==
    (Merged /\ ~HasKey(BlockDates(blocks), run_date))
    => LET kept == FirstBlocks(blocks)
       IN  NonEmptyRuns(final_rows) =
              [i \in DOMAIN kept |-> CarryKey(kept[i].rows, kept[i].date)]
                  \o <<CarryKey(data_rows, run_date)>>

\* C2 witness: two historical blocks are kept as they were and the new block
\* comes third
C2_Witness ==
    /\ Merged
    /\ Len(blocks) = 2
    /\ ~HasKey(BlockDates(blocks), run_date)
    /\ NonEmptyRuns(final_rows) =
          <<blocks[1].rows, blocks[2].rows, CarryKey(data_rows, run_date)>>

\* C4: in the final rows every block is followed by exactly one all-empty
\* row, the last block too; no two blocks touch; there is no other all-empty
\* row: the rows start with a block, end with an all-empty row, never hold two
\* all-empty rows in a row, and hold as many all-empty rows as blocks.
C4_SeparatorInvariant ==
    Merged
    => LET E == EmptyRowIndexes(final_rows)
       IN  /\ final_rows # <<>>
           /\ 1 \notin E
           /\ Len(final_rows) \in E
           /\ \A i \in E : i + 1 \notin E
           /\ Cardinality(E) = Len(ordered_dates)
           /\ Len(NonEmptyRuns(final_rows)) = Len(ordered_dates)
           /\ \A k \in DOMAIN ordered_dates :
                 Len(NonEmptyRuns(final_rows)[k]) = Len(block_map[k])

\* C4 witness: a history of two blocks with no empty row between them is
\* written with three separators
C4_Witness ==
    /\ Merged
    /\ Len(blocks) = 2
    /\ EmptyRowIndexes(existing_data_rows) = {}
    /\ Len(ordered_dates) = 3
    /\ Cardinality(EmptyRowIndexes(final_rows)) = 3

\* C8: when the split history holds several blocks with one key D, the
\* ordered key list holds D once, at the position of its first block; the rows
\* kept for D are those of that first block, or the new rows when D is the run
\* date; the final rows are the kept rows only, so no later block with key D
\* contributes a row.
C8_DedupDefensiveness ==
    (Merged /\ ~KeysDistinct(BlockDates(blocks)))
    => LET S == FirstIndexes(blocks)
           F == NonEmptyRuns(final_rows)
       IN  /\ KeysDistinct(ordered_dates)
           /\ Len(ordered_dates) =
                 Cardinality(S) + (IF HasKey(BlockDates(blocks), run_date) THEN 0 ELSE 1)
           /\ \A i \in S :
                 /\ ordered_dates[Rank(S, i)] = blocks[i].date
                 /\ block_map[Rank(S, i)] =
                       IF PyEq(blocks[i].date, run_date) THEN data_rows
                       ELSE blocks[i].rows
           /\ Len(F) = Len(ordered_dates)
           /\ \A k \in DOMAIN F : F[k] = CarryKey(block_map[k], ordered_dates[k])

\* C8 witness: the history holds two separated blocks for one date with
\* different rows, and no row of the second is in the final rows
C8_Witness ==
    /\ Merged
    /\ Len(blocks) = 2
    /\ PyEq(blocks[1].date, blocks[2].date)
    /\ ~PyEq(blocks[1].date, run_date)
    /\ blocks[1].rows # blocks[2].rows
    /\ \A i \in DOMAIN final_rows :
          \A j \in DOMAIN blocks[2].rows : final_rows[i] # blocks[2].rows[j]
    /\ Len(ordered_dates) = 2

(***************************************************************************)
(* Properties of the persisted document and of a run.                      *)
(***************************************************************************)
\* the day-blocks of the document: the runs of rows below the header
DocumentBlocks(f) == NonEmptyRuns(Tail(_read_xlsx_rows(f)))

\* C3: after any sequence of runs from no document, no two day-blocks of the
\* persisted document have the same date key: within a block every row
\* carries one value in its first column, and the values of two blocks differ.
C3_NoDuplicateDateKeys ==
    file.st = "complete"
    => LET B == DocumentBlocks(file)
       IN  /\ \A b \in DOMAIN B : \A i \in DOMAIN B[b] : PyEq(B[b][i][1], B[b][1][1])
           /\ \A a, b \in DOMAIN B : a # b => ~PyEq(B[a][1][1], B[b][1][1])

\* C3 witness: a run for a date the document already held has been written,
\* and the document holds one block
C3_Witness ==
    /\ pc = "done"
    /\ runs = 2
    /\ Len(blocks) = 1
    /\ PyEq(blocks[1].date, run_date)
    /\ Truthy(run_date)
    /\ Len(DocumentBlocks(file)) = 1

\* C5: when the write fails or the run is interrupted, the document is
\* entirely the document of before the run or entirely the new document.
C5_WriteIsAtomic ==
    pc = "aborted"
    => \/ file = old_file
       \/ file = _write_xlsx(HEADERS, final_rows)

\* C7: a failing geocode or forecast fetch never ends the run inside the
\* loop over the locations, and the block the run writes holds one row per
\* configured location, in configured order, the rows of the failed locations
\* without measurements.
C7_FetchFailuresTolerated ==
    /\ ~(pc = "aborted" /\ loc <= Len(CONCELHOS))
    /\ Merged
       => LET k == KeyIndex(ordered_dates, run_date)
              block == NonEmptyRuns(final_rows)[k]
          IN  /\ Len(block) = Len(CONCELHOS)
              /\ \A i \in DOMAIN block :
                    /\ block[i][2] = StrCell(CONCELHOS[i])
                    /\ CONCELHOS[i] \in Range(errors)
                       => \A j \in 3..Len(HEADERS) : IsBlank(block[i][j])

\* C6: the rows the remote variant computes below the header are the final
\* rows the container variant's merge computes from the same rows read, run
\* date and new rows.
C6_RemoteMergeIsContainerMerge ==
    pc \in {"r_write", "r_cleared", "r_done"}
    => Tail(new_sheet) = ContainerMerge(Tail(existing), run_date, today_rows)

(***************************************************************************)
(* Specification SpecColumn: the column address functions applied to       *)
(* every column number up to MaxColumn, followed by a row number or other  *)
(* non-letter suffix.                                                      *)
(***************************************************************************)
AddressSuffixes == {<<>>, <<"1", "2">>, <<"a">>}

ColumnInit ==
    /\ pc = "col_start"
    /\ arg \in [n : 1..MaxColumn, suffix : AddressSuffixes]
    /\ res = [label |-> <<>>, index |-> 0]
    /\ ContainerIdle
    /\ RemoteIdle

ToLetters ==
    /\ pc = "col_start"
    /\ res' = [res EXCEPT !.label = _column_letter(arg.n)]
    /\ pc' = "col_letters"
    /\ UNCHANGED <<arg, runs>>
    /\ UNCHANGED container_vars
    /\ UNCHANGED remote_vars

ToIndex ==
    /\ pc = "col_letters"
    /\ res' = [res EXCEPT !.index = _column_index(res.label \o arg.suffix)]
    /\ pc' = "col_done"
    /\ UNCHANGED <<arg, runs>>
    /\ UNCHANGED container_vars
    /\ UNCHANGED remote_vars

ColumnNext == ToLetters \/ ToIndex

SpecColumn == ColumnInit /\ [][ColumnNext]_vars

\* C10: for every n in 1..MaxColumn, _column_index(_column_letter(n)) = n,
\* also when the letters are followed by a row number or another non-letter
\* suffix: only the leading letters are consumed.
C10_ColumnBijection ==
    pc = "col_done" => res.index = arg.n

\* C10 witness: the address "C12" has been converted and yields column 3
C10_Witness ==
    /\ pc = "col_done"
    /\ arg.n = 3
    /\ arg.suffix = <<"1", "2">>
    /\ res.label = <<"C">>
    /\ res.index = 3

(***************************************************************************)
(* Specification SpecNumber: a measurement on its way through the number   *)
(* encoding: _round_value as _forecast_today applies it to a value of the  *)
(* forecast, or a value handed to _cell_xml as it is (a number of a        *)
(* history row, as _parse_cell_number returned it); then _cell_xml,        *)
(* _parse_cell_number on the written payload, and _cell_xml again.         *)
(***************************************************************************)
\* round(float(value), 1), a float.  Called on magnitudes the model rounds
\* exactly: no value between -0.05 and 0 (whose result is the float -0.0).
_round_value(value) ==
    IF value.t = "none" THEN None
    ELSE IF value.t = "str"
        THEN IF ~IsFloatText(value.s) THEN None
             ELSE LET h == FloatOfText(value.s)
                  IN  FloatCell((IF h < 0 THEN -10 ELSE 10) * RoundToTenths(Abs(h)))
    ELSE LET h == Hundredths(value)
         IN  FloatCell((IF h < 0 THEN -10 ELSE 10) * RoundToTenths(Abs(h)))

\* the values drawn: integers, floats with one fractional digit (integral
\* ones included), floats with two fractional digits, an absent value and
\* texts
NumberInputs ==
    {IntCell(k) : k \in (-MaxTenths)..MaxTenths}
        \cup {FloatCell(10 * k) : k \in (-MaxTenths)..MaxTenths}
        \cup {FloatCell(125), FloatCell(175), FloatCell(1234), FloatCell(-268)}
        \cup {None, StrCell(<<"a">>), StrCell(<<"7">>)}

\* a number with at most one fractional digit
OneFractionalDigit(value) ==
    value.t \in {"int", "float"} /\ Hundredths(value) % 10 = 0

NumberInit ==
    /\ pc = "num_start"
    /\ \E raw \in NumberInputs : arg = [raw |-> raw, value |-> None]
    /\ res = [payload |-> <<>>, decoded |-> None, payload2 |-> <<>>]
    /\ ContainerIdle
    /\ RemoteIdle

number_frame ==
    /\ UNCHANGED runs
    /\ UNCHANGED container_vars
    /\ UNCHANGED remote_vars

\* _forecast_today: the measurement is _round_value of the forecast's value
RoundValue ==
    /\ pc = "num_start"
    /\ arg' = [arg EXCEPT !.value = _round_value(arg.raw)]
    /\ pc' = "num_ready"
    /\ UNCHANGED res
    /\ number_frame

\* a number of a stored row reaches _cell_xml as the reader returned it
TakeValue ==
    /\ pc = "num_start"
    /\ OneFractionalDigit(arg.raw)
    /\ arg' = [arg EXCEPT !.value = arg.raw]
    /\ pc' = "num_ready"
    /\ UNCHANGED res
    /\ number_frame

\* _cell_xml on a number: the text between <v> and </v>
EncodeNumber ==
    /\ pc = "num_ready"
    /\ arg.value.t \in {"int", "float"}
    /\ res' = [res EXCEPT !.payload = _cell_xml(arg.value, 2, 3).body]
    /\ pc' = "num_encoded"
    /\ UNCHANGED arg
    /\ number_frame

DecodeNumber ==
    /\ pc = "num_encoded"
    /\ res' = [res EXCEPT !.decoded = _parse_cell_number(res.payload)]
    /\ pc' = "num_decoded"
    /\ UNCHANGED arg
    /\ number_frame

ReencodeNumber ==
    /\ pc = "num_decoded"
    /\ res' = [res EXCEPT !.payload2 = _cell_xml(res.decoded, 2, 3).body]
    /\ pc' = "num_done"
    /\ UNCHANGED arg
    /\ number_frame

NumberNext ==
    \/ RoundValue
    \/ TakeValue
    \/ EncodeNumber
    \/ DecodeNumber
    \/ ReencodeNumber

SpecNumber == NumberInit /\ [][NumberNext]_vars

\* text of digits, with an optional leading minus sign
IsIntegerLiteral(text) ==
    AllDigits(IF text # <<>> /\ Head(text) = "-" THEN Tail(text) ELSE text)

\* an integer literal, a point and exactly one digit
HasOneFractionalDigit(text) ==
    /\ Len(text) >= 3
    /\ text[Len(text) - 1] = "."
    /\ IsIntegerLiteral(SubSeq(text, 1, Len(text) - 2))
    /\ AllDigits(<<text[Len(text)]>>)

\* C11: for every number with at most one fractional digit, the payload
\* _cell_xml writes has exactly one fractional digit when the value is not
\* integral and is a plain integer literal otherwise (also for an integral
\* value held as a float), and encoding what _parse_cell_number decodes from
\* the payload gives the identical payload.
C11_NumberEncoding ==
    (pc = "num_done" /\ OneFractionalDigit(arg.value))
    => /\ IF Hundredths(arg.value) % 100 # 0
          THEN HasOneFractionalDigit(res.payload)
          ELSE IsIntegerLiteral(res.payload)
       /\ res.payload2 = res.payload

(***************************************************************************)
(* Specification SpecSplit: _split_day_blocks on a row sequence that grows *)
(* by one row at a time.  arg holds the rows, the row fed last, the blocks *)
(* of the rows before it and whether a block was open after them; res the  *)
(* blocks of all the rows.                                                 *)
(***************************************************************************)
SplitRow(date, t_min_c) == <<date, IntCell(t_min_c)>>

\* rows as the reader returns them: dated rows for two days, a row without a
\* date key, an all-empty row and a row without cells
SplitRows ==
    {SplitRow(StrCell(D1), 5), SplitRow(StrCell(D1), 7), SplitRow(StrCell(D2), 5),
     SplitRow(EmptyStr, 6), <<EmptyStr, EmptyStr>>, <<>>}

\* current_rows is not empty once the loop has consumed rws
OpenAfter(rws) == rws # <<>> /\ ~_is_empty_row(rws[Len(rws)])

SplitInit ==
    /\ pc = "split_start"
    /\ arg = [rows |-> <<>>, row |-> <<>>, before |-> <<>>, open |-> FALSE]
    /\ res = <<>>
    /\ ContainerIdle
    /\ RemoteIdle

FeedRow ==
    /\ pc \in {"split_start", "split_fed"}
    /\ Len(arg.rows) < MaxSplitRows
    /\ \E row \in SplitRows :
          /\ arg' = [rows |-> Append(arg.rows, row), row |-> row,
                     before |-> _split_day_blocks(arg.rows),
                     open |-> OpenAfter(arg.rows)]
          /\ res' = _split_day_blocks(Append(arg.rows, row))
    /\ pc' = "split_fed"
    /\ UNCHANGED runs
    /\ UNCHANGED container_vars
    /\ UNCHANGED remote_vars

SplitNext == FeedRow

SpecSplit == SplitInit /\ [][SplitNext]_vars

\* the blocks before the row, the last one with the key date and the row added
ExtendLast(blks, date, row) ==
    [blks EXCEPT ![Len(blks)] = Block(date, Append(blks[Len(blks)].rows, row))]

StartBlock(blks, row) == Append(blks, Block(row[1], <<row>>))

NoEmptyRowStored(blks) ==
    \A b \in DOMAIN blks : \A i \in DOMAIN blks[b].rows :
        ~_is_empty_row(blks[b].rows[i])

\* C12 as stated: an all-empty row closes the open block and is stored in no
\* block; a row with a date key that arrives while a block is open under a
\* different key, the empty key included, closes that block as its own entry
\* and starts a new one; a row with the same key or without a key extends the
\* open block; a row that finds no block open opens one under its own key.
C12_FlushThenStartAsStated ==
    pc = "split_fed"
    => LET B == arg.before
           row == arg.row
       IN  /\ NoEmptyRowStored(res)
           /\ IF _is_empty_row(row) THEN res = B
              ELSE IF ~arg.open THEN res = StartBlock(B, row)
              ELSE IF IsBlank(row[1]) \/ PyEq(row[1], B[Len(B)].date)
                  THEN res = ExtendLast(B, B[Len(B)].date, row)
              ELSE res = StartBlock(B, row)

\* C12 amended: an all-empty row closes the open block and is stored in no
\* block; a row with a date key that arrives while a block is open under a
\* different non-empty key closes that block as its own entry and starts a new
\* one; a row with a date key that arrives while the open block has the empty
\* key (it holds only rows without a key) joins that block and gives it its
\* key; a row with the same key or without a key extends the open block; a
\* row that finds no block open opens one under its own key, empty or not.
C12_FlushThenStart ==
    pc = "split_fed"
    => LET B == arg.before
           row == arg.row
       IN  /\ NoEmptyRowStored(res)
           /\ IF _is_empty_row(row) THEN res = B
              ELSE IF ~arg.open THEN res = StartBlock(B, row)
              ELSE IF IsBlank(row[1]) \/ PyEq(row[1], B[Len(B)].date)
                  THEN res = ExtendLast(B, B[Len(B)].date, row)
              ELSE IF IsBlank(B[Len(B)].date)
                  THEN res = ExtendLast(B, row[1], row)
              ELSE res = StartBlock(B, row)

\* C12 witness: a block for D1 is closed by a row of D2, which starts the
\* second block, after the D1 block had taken in a row without a key
C12_Witness ==
    /\ pc = "split_fed"
    /\ arg.open
    /\ arg.row = SplitRow(StrCell(D2), 5)
    /\ arg.before = <<Block(StrCell(D1),
                            <<SplitRow(StrCell(D1), 5), SplitRow(EmptyStr, 6)>>)>>
    /\ res = Append(arg.before, Block(StrCell(D2), <<arg.row>>))

(***************************************************************************)
(* Properties of the sheet the remote variant writes.                      *)
(***************************************************************************)
\* the run fetched, all for one date, the rows that end the sheet it read: a
\* rerun for the date of the run before it
RemoteRerun ==
    /\ today_rows # <<>>
    /\ \A i \in DOMAIN today_rows : today_rows[i][1] = run_date
    /\ Len(existing) > Len(today_rows)
    /\ SubSeq(existing, Len(existing) - Len(today_rows) + 1, Len(existing))
          = today_rows

\* C13: after any sequence of runs of the remote variant from an empty sheet,
\* no all-empty row of the written sheet follows the header or another
\* all-empty row (day-blocks are separated by one all-empty row, never more),
\* and a rerun for the date of the run before it writes the sheet it read.
C13_RemoteSeparators ==
    /\ pc = "r_done"
       => LET E == EmptyRowIndexes(Tail(sheet))
          IN  /\ 1 \notin E
              /\ \A i \in E : i + 1 \notin E
    /\ (pc \in {"r_write", "r_cleared", "r_done"} /\ RemoteRerun)
       => new_sheet = existing

====
